---- MODULE Spec2Model ----
(***************************************************************************)
(* Model of the SCL <-> RDF codec of backend/app/scl_converter.py:         *)
(* SCLToRDFConverter (encoder) and RDFToSCLConverter (decoder).            *)
(*                                                                         *)
(* A document is a sequence of element nodes in pre-order, each naming its *)
(* parent's index; a graph is a set of triples <<subject, predicate,       *)
(* object>>, subject and predicate being URI strings and the object one of *)
(* <<"uri", s>>, <<"lit", s>> (plain literal) and <<"int", n>>             *)
(* (xsd:integer literal).                                                  *)
(***************************************************************************)
EXTENDS Integers, Sequences, FiniteSets, TLC

VARIABLES
    doc,            \* the parsed tree handed to SCLToRDFConverter.convert
    graph,          \* SCLToRDFConverter.graph
    order_counter,  \* SCLToRDFConverter.order_counter
    uri,            \* node index -> the URI _process_element created for it
    pos,            \* index of the node the traversal visits next
    phase,          \* "parsed", "encoding", "encoded", "decoded"
    extra,          \* triples in the decoder's graph the encoder did not produce
    root_uri,       \* the root entity RDFToSCLConverter.convert picked
    nsmap,          \* RDFToSCLConverter.nsmap
    result,         \* what RDFToSCLConverter.convert returned or raised
    earlier_calls,  \* convert() calls this SCLToRDFConverter object ran before
    converter2,     \* a second SCLToRDFConverter object and the tree it walks
    validation_passed,  \* SCLFile.validation_passed: "None", "True", "False"
    scl_files,      \* the rows of table SCLFile, the id being the index
    fs,             \* the files below UPLOAD_DIR: path -> content
    datasets,       \* Fuseki: dataset name -> the documents whose triples it received
    tasks,          \* the process_scl_file run of each file id
    now,            \* datetime.utcnow() of the latest upload, in seconds
    stack           \* the _build_element calls in progress, innermost last

\* the state of the upload API and of its background tasks
api_vars == <<scl_files, fs, datasets, tasks, now>>

\* what the steps of the first converter object and of the decoder leave alone
other_vars == <<earlier_calls, converter2, validation_passed, api_vars, stack>>

vars == <<doc, graph, order_counter, uri, pos, phase, extra, root_uri, nsmap, result,
          other_vars>>

----------------------------------------------------------------------------
(* Namespaces, scl_converter.py lines 18-21 *)

SCL_NS == "http://www.iec.ch/61850/2003/SCL"
IEC == "http://iec61850.com/SCL#"
PRIVATE == "http://iec61850.com/private#"
RDF_type == "http://www.w3.org/1999/02/22-rdf-syntax-ns#type"

----------------------------------------------------------------------------
(* Python string operations the codec uses *)

CharAt(s, i) == SubSeq(s, i, i)

startswith(s, p) == Len(s) >= Len(p) /\ SubSeq(s, 1, Len(p)) = p

\* s.replace(old, ""): every occurrence of old removed, scanning left to right
RECURSIVE str_remove(_, _)
str_remove(s, old) ==
    IF Len(s) < Len(old) \/ Len(old) = 0 THEN s
    ELSE IF startswith(s, old) THEN str_remove(SubSeq(s, Len(old) + 1, Len(s)), old)
    ELSE CharAt(s, 1) \o str_remove(SubSeq(s, 2, Len(s)), old)

Whitespace == {" ", "\t", "\n", "\r"}

RECURSIVE lstrip(_)
lstrip(s) ==
    IF Len(s) > 0 /\ CharAt(s, 1) \in Whitespace THEN lstrip(SubSeq(s, 2, Len(s))) ELSE s

RECURSIVE rstrip(_)
rstrip(s) ==
    IF Len(s) > 0 /\ CharAt(s, Len(s)) \in Whitespace
    THEN rstrip(SubSeq(s, 1, Len(s) - 1)) ELSE s

strip(s) == rstrip(lstrip(s))

\* urllib.parse.quote(s, safe=''): unreserved characters kept, the others
\* percent-encoded
Unreserved ==
    {"a","b","c","d","e","f","g","h","i","j","k","l","m","n","o","p","q","r","s",
     "t","u","v","w","x","y","z","A","B","C","D","E","F","G","H","I","J","K","L",
     "M","N","O","P","Q","R","S","T","U","V","W","X","Y","Z","0","1","2","3","4",
     "5","6","7","8","9","_",".","-","~"}

PercentCode(c) ==
    CASE c = " " -> "%20"
      [] c = "#" -> "%23"
      [] c = "%" -> "%25"
      [] c = "/" -> "%2F"
      [] c = ":" -> "%3A"
      [] c = "{" -> "%7B"
      [] c = "}" -> "%7D"

RECURSIVE quote(_)
quote(s) ==
    IF Len(s) = 0 THEN ""
    ELSE (IF CharAt(s, 1) \in Unreserved THEN CharAt(s, 1) ELSE PercentCode(CharAt(s, 1)))
         \o quote(SubSeq(s, 2, Len(s)))

PercentChar(code) ==
    CASE code = "%20" -> " "
      [] code = "%23" -> "#"
      [] code = "%25" -> "%"
      [] code = "%2F" -> "/"
      [] code = "%3A" -> ":"
      [] code = "%7B" -> "{"
      [] code = "%7D" -> "}"
      [] OTHER -> code

RECURSIVE unquote(_)
unquote(s) ==
    IF Len(s) = 0 THEN ""
    ELSE IF CharAt(s, 1) = "%" /\ Len(s) >= 3
         THEN PercentChar(SubSeq(s, 1, 3)) \o unquote(SubSeq(s, 4, Len(s)))
         ELSE CharAt(s, 1) \o unquote(SubSeq(s, 2, Len(s)))

----------------------------------------------------------------------------
(* Documents: the trees lxml hands to the encoder *)

MaxNodes == 5

EmptyMap == [k \in {} |-> ""]

\* The root elements of the model's documents, each with the root's nsmap
\* (prefix -> namespace URI, the default namespace under the prefix "")
RootKinds ==
    { [local |-> "SCL", text |-> "\n",
       attrib |-> ("version" :> "2007") @@ ("{ns2}kind" :> "k"),
       nsmap |-> ("" :> SCL_NS) @@ ("compas" :> "https://www.lfenergy.org/compas/extension/v1")
                 @@ ("rte" :> "http://www.rte-international.com")],
      [local |-> "Root", text |-> "", attrib |-> EmptyMap,
       nsmap |-> ("" :> "ns1") @@ ("p" :> "ns2")],
      [local |-> "SCL", text |-> "", attrib |-> ("name" :> "a b"),
       nsmap |-> EmptyMap] }

\* The elements below the root
ChildKinds ==
    { [local |-> "A", text |-> "", attrib |-> ("name" :> "x")],
      [local |-> "B", text |-> "hello", attrib |-> ("id" :> "y")],
      [local |-> "Private", text |-> " ", attrib |-> ("type" :> "vendor-x")] }

Node(parent, kind) ==
    [parent |-> parent, local |-> kind.local, text |-> kind.text, attrib |-> kind.attrib]

\* the nodes from node i up to the root
RECURSIVE AncestorsOrSelf(_, _)
AncestorsOrSelf(nodes, i) ==
    IF i = 0 THEN {} ELSE {i} \cup AncestorsOrSelf(nodes, nodes[i].parent)

\* element.tag: unprefixed elements are in the root's default namespace
DefaultNs(d) == IF "" \in DOMAIN d.nsmap THEN d.nsmap[""] ELSE ""

ChildIndices(nodes, i) ==
    SelectSeq([j \in 1..Len(nodes) |-> j], LAMBDA j : nodes[j].parent = i)

\* the lxml element at node i, with its subtree
RECURSIVE TreeOf(_, _)
TreeOf(d, i) ==
    LET kids == ChildIndices(d.nodes, i) IN
    [tag |-> <<DefaultNs(d), d.nodes[i].local>>,
     attrib |-> d.nodes[i].attrib,
     text |-> d.nodes[i].text,
     children |-> [k \in 1..Len(kids) |-> TreeOf(d, kids[k])]]

\* first index after the subtree of node i
SubtreeEnd(nodes, i) ==
    IF \E j \in (i + 1)..Len(nodes) : nodes[j].parent < i
    THEN CHOOSE j \in (i + 1)..Len(nodes) :
            /\ nodes[j].parent < i
            /\ \A m \in (i + 1)..(j - 1) : nodes[m].parent >= i
    ELSE Len(nodes) + 1

----------------------------------------------------------------------------
(* SCLToRDFConverter *)

\* _get_next_order without the increment
_get_next_order_stuck(counter) == counter

\* self.order_counter += 1; return self.order_counter
_get_next_order(counter) == counter + 1

\* element.get('id') or element.get('name'); "" stands for None
elem_id_of(element) ==
    IF "id" \in DOMAIN element.attrib /\ element.attrib["id"] # ""
    THEN element.attrib["id"]
    ELSE IF "name" \in DOMAIN element.attrib THEN element.attrib["name"] ELSE ""

\* _create_element_uri with the order left out of the URI
_create_element_uri_unordered(element, parent_uri, counter) ==
    LET order == _get_next_order(counter)
        tag == element.local
        elem_id == elem_id_of(element)
    IN  [counter |-> order,
         uri |-> IF elem_id # "" /\ parent_uri # ""
                     THEN parent_uri \o "/" \o quote(elem_id)
                 ELSE IF elem_id # ""
                     THEN IEC \o tag \o "/" \o quote(elem_id)
                 ELSE IF parent_uri # ""
                     THEN parent_uri \o "/" \o tag
                 ELSE IEC \o tag]

\* The URI of an element and the counter after the call; parent_uri "" is None
_create_element_uri(element, parent_uri, counter) ==
    LET order == _get_next_order(counter)
        tag == element.local
        elem_id == elem_id_of(element)
    IN  [counter |-> order,
         uri |-> IF elem_id # "" /\ parent_uri # ""
                     THEN parent_uri \o "/" \o quote(elem_id) \o "_" \o ToString(order)
                 ELSE IF elem_id # ""
                     THEN IEC \o tag \o "/" \o quote(elem_id)
                 ELSE IF parent_uri # ""
                     THEN parent_uri \o "/" \o tag \o "_" \o ToString(order)
                 ELSE IEC \o tag \o "_" \o ToString(order)]

\* base64.b64encode(etree.tostring(element)): the subtree, verbatim
_serialize_private_element(element) == <<"base64", <<"xml", element>>>>

\* the predicate of an attribute, lines 127-134
attr_uri_of(attr_name) ==
    IF startswith(attr_name, "{") THEN IEC \o "attr_" \o quote(attr_name)
    ELSE IEC \o attr_name

\* the triples of a Private element when its children are described too
PrivateTriples_decomposed(d, i, private_uri, parent_uri, order) ==
    {<<private_uri, RDF_type, <<"uri", PRIVATE \o "PrivateSection">>>>,
     <<private_uri, PRIVATE \o "order", <<"int", order>>>>,
     <<private_uri, PRIVATE \o "xmlContent",
       <<"lit", _serialize_private_element(TreeOf(d, i))>>>>}
    \cup (IF parent_uri # ""
          THEN {<<parent_uri, PRIVATE \o "hasPrivate", <<"uri", private_uri>>>>} ELSE {})
    \cup {<<private_uri \o "/" \o d.nodes[j].local, RDF_type,
            <<"uri", IEC \o d.nodes[j].local>>>> :
            j \in {k \in 1..Len(d.nodes) : d.nodes[k].parent = i}}

\* the triples of a Private element, lines 90-110
PrivateTriples(d, i, private_uri, parent_uri, order) ==
    LET element == d.nodes[i] IN
    {<<private_uri, RDF_type, <<"uri", PRIVATE \o "PrivateSection">>>>,
     <<private_uri, PRIVATE \o "order", <<"int", order>>>>,
     <<private_uri, PRIVATE \o "xmlContent",
       <<"lit", _serialize_private_element(TreeOf(d, i))>>>>}
    \cup (IF parent_uri # ""
          THEN {<<parent_uri, PRIVATE \o "hasPrivate", <<"uri", private_uri>>>>} ELSE {})
    \cup (IF "type" \in DOMAIN element.attrib /\ element.attrib["type"] # ""
          THEN {<<private_uri, PRIVATE \o "type", <<"lit", element.attrib["type"]>>>>}
          ELSE {})

\* the triples of a regular element when the text is stored as it stands
ElementTriples_rawtext(d, i, element_uri, parent_uri, order) ==
    LET element == d.nodes[i]
        tag == element.local
    IN
    {<<element_uri, IEC \o "order", <<"int", order>>>>,
     <<element_uri, RDF_type, <<"uri", IEC \o tag>>>>}
    \cup (IF parent_uri # ""
          THEN {<<parent_uri, IEC \o "has" \o tag, <<"uri", element_uri>>>>} ELSE {})
    \cup {<<element_uri, attr_uri_of(a), <<"lit", element.attrib[a]>>>> :
            a \in DOMAIN element.attrib}
    \cup (IF element.text # ""
          THEN {<<element_uri, IEC \o "textContent", <<"lit", element.text>>>>}
          ELSE {})

\* the triples of a regular element when every element is linked to the root
\* entity's type instead of its parent
ElementTriples_flat(d, i, element_uri, parent_uri, order) ==
    LET element == d.nodes[i]
        tag == element.local
    IN
    {<<element_uri, IEC \o "order", <<"int", order>>>>,
     <<element_uri, RDF_type, <<"uri", IEC \o tag>>>>}
    \cup (IF parent_uri # ""
          THEN {<<IEC \o "SCL", IEC \o "has" \o tag, <<"uri", element_uri>>>>} ELSE {})
    \cup {<<element_uri, attr_uri_of(a), <<"lit", element.attrib[a]>>>> :
            a \in DOMAIN element.attrib}
    \cup (IF strip(element.text) # ""
          THEN {<<element_uri, IEC \o "textContent", <<"lit", strip(element.text)>>>>}
          ELSE {})

\* the triples of a regular element, lines 112-139
ElementTriples(d, i, element_uri, parent_uri, order) ==
    LET element == d.nodes[i]
        tag == element.local
    IN
    {<<element_uri, IEC \o "order", <<"int", order>>>>,
     <<element_uri, RDF_type, <<"uri", IEC \o tag>>>>}
    \cup (IF parent_uri # ""
          THEN {<<parent_uri, IEC \o "has" \o tag, <<"uri", element_uri>>>>} ELSE {})
    \cup {<<element_uri, attr_uri_of(a), <<"lit", element.attrib[a]>>>> :
            a \in DOMAIN element.attrib}
    \cup (IF strip(element.text) # ""
          THEN {<<element_uri, IEC \o "textContent", <<"lit", strip(element.text)>>>>}
          ELSE {})

\* the namespace triples of the root's nsmap, lines 155-163
NamespaceTriples(root_nsmap) ==
    {IF prefix = ""
        THEN <<IEC \o "SCL", IEC \o "defaultNamespace", <<"lit", root_nsmap[prefix]>>>>
        ELSE <<IEC \o "SCL", IEC \o "namespace_" \o prefix, <<"lit", root_nsmap[prefix]>>>> :
     prefix \in DOMAIN root_nsmap}

\* no second converter object
NoConverter ==
    [doc |-> [nsmap |-> EmptyMap, nodes |-> <<>>], graph |-> {}, order_counter |-> 0,
     uri |-> EmptyMap, pos |-> 0, phase |-> "absent"]

\* nothing uploaded: no rows, no files, no datasets, no tasks
NoUploads ==
    /\ scl_files = <<>>
    /\ fs = EmptyMap
    /\ datasets = EmptyMap
    /\ tasks = <<>>
    /\ now = 0

\* The tree is read element by element: Init holds a root alone
Init ==
    /\ \E rk \in RootKinds : doc = [nsmap |-> rk.nsmap, nodes |-> <<Node(0, rk)>>]
    /\ graph = {}
    /\ order_counter = 0
    /\ uri = EmptyMap
    /\ pos = 0
    /\ phase = "parsed"
    /\ extra = {}
    /\ root_uri = ""
    /\ nsmap = EmptyMap
    /\ result = [status |-> "none", tree |-> <<>>]
    /\ earlier_calls = 0
    /\ converter2 = NoConverter
    /\ validation_passed = "None"
    /\ NoUploads
    /\ stack = <<>>

\* convert, line 150, etree.parse: the next element of the file, in document
\* order, hangs below the last element read or one of its ancestors
etree_parse ==
    /\ phase = "parsed"
    /\ Len(doc.nodes) < MaxNodes
    /\ \E p \in AncestorsOrSelf(doc.nodes, Len(doc.nodes)), k \in ChildKinds :
          doc' = [doc EXCEPT !.nodes = Append(@, Node(p, k))]
    /\ UNCHANGED <<graph, order_counter, uri, pos, phase, extra, root_uri, nsmap, result, other_vars>>

\* convert, lines 147-163: the root's namespaces are stored, then the walk starts
SCLToRDFConverter_convert ==
    /\ phase = "parsed"
    /\ graph' = graph \cup NamespaceTriples(doc.nsmap)
    /\ pos' = 1
    /\ phase' = "encoding"
    /\ UNCHANGED <<doc, order_counter, uri, extra, root_uri, nsmap, result, other_vars>>

\* isinstance(element.tag, str), line 86: the tag of a comment or a processing
\* instruction is a function of lxml, not a string
is_str_tag(element) == element.local # "#comment"

\* one call of _process_element, up to its loop over the children; a Private
\* element's subtree is not visited
_process_element ==
    /\ phase = "encoding"
    /\ pos <= Len(doc.nodes)
    /\ is_str_tag(doc.nodes[pos])
    /\ LET element == doc.nodes[pos]
           parent_uri == IF element.parent = 0 THEN "" ELSE uri[element.parent]
           created == _create_element_uri(element, parent_uri, order_counter)
           order == _get_next_order(created.counter)
       IN  /\ order_counter' = order
           /\ uri' = (pos :> created.uri) @@ uri
           /\ IF element.local = "Private"
              THEN /\ graph' = graph \cup
                        PrivateTriples(doc, pos, created.uri, parent_uri, order)
                   /\ pos' = SubtreeEnd(doc.nodes, pos)
              ELSE /\ graph' = graph \cup
                        ElementTriples(doc, pos, created.uri, parent_uri, order)
                   /\ pos' = pos + 1
    /\ UNCHANGED <<doc, phase, extra, root_uri, nsmap, result, other_vars>>

\* convert, line 168: return self.graph
SCLToRDFConverter_return ==
    /\ phase = "encoding"
    /\ pos > Len(doc.nodes)
    /\ phase' = "encoded"
    /\ UNCHANGED <<doc, graph, order_counter, uri, pos, extra, root_uri, nsmap, result, other_vars>>

\* _process_element, line 83, on a comment or processing instruction:
\* etree.QName(element.tag) is given lxml's Comment function, takes its str()
\* as a tag name and raises ValueError (invalid tag name) before line 86 is
\* reached; the exception leaves the recursion and convert re-raises it
\* (lines 170-172)
_process_element_raise ==
    /\ phase = "encoding"
    /\ pos <= Len(doc.nodes)
    /\ ~is_str_tag(doc.nodes[pos])
    /\ phase' = "encode_failed"
    /\ UNCHANGED <<doc, graph, order_counter, uri, pos, extra, root_uri, nsmap, result, other_vars>>

----------------------------------------------------------------------------
(* rdflib: Graph.objects, Graph.predicate_objects, Graph.value, str(), bool() *)

objects(g, s, p) == {t[3] : t \in {x \in g : x[1] = s /\ x[2] = p}}

predicate_objects(g, s) == {<<t[2], t[3]>> : t \in {x \in g : x[1] = s}}

\* Graph.value: any one object when there are several, None (<<"none", "">>)
\* when there is none
value(g, s, p) ==
    IF objects(g, s, p) = {} THEN <<"none", "">>
    ELSE CHOOSE o \in objects(g, s, p) : TRUE

\* str(node): the lexical form
str(o) == IF o[1] = "int" THEN ToString(o[2]) ELSE o[2]

\* bool(node): None and empty or zero literals are false
truthy(o) ==
    CASE o[1] = "none" -> FALSE
      [] o[1] = "int" -> o[2] # 0
      [] o[1] = "lit" -> o[2] # ""
      [] OTHER -> TRUE

Digits == <<"0", "1", "2", "3", "4", "5", "6", "7", "8", "9">>

DigitValue(c) == (CHOOSE k \in 1..10 : Digits[k] = c) - 1

\* int(literal) of a decimal numeral
RECURSIVE ParseInt(_)
ParseInt(s) ==
    IF Len(s) = 1 THEN DigitValue(s)
    ELSE 10 * ParseInt(SubSeq(s, 1, Len(s) - 1)) + DigitValue(CharAt(s, Len(s)))

int(o) == IF o[1] = "int" THEN o[2] ELSE ParseInt(o[2])

----------------------------------------------------------------------------
(* RDFToSCLConverter *)

\* _restore_namespaces that always takes the fallback default namespace
_restore_namespaces_fallback(g) ==
    LET marker == IEC \o "namespace_"
        prefixed == {po \in predicate_objects(g, IEC \o "SCL") : startswith(po[1], marker)}
        prefixes == {str_remove(po[1], marker) : po \in prefixed}
    IN  [prefix \in {""} \cup prefixes |->
            IF prefix \in prefixes
            THEN str((CHOOSE po \in prefixed : str_remove(po[1], marker) = prefix)[2])
            ELSE SCL_NS]

\* lines 187-205; the default namespace is kept under the prefix ""
_restore_namespaces(g) ==
    LET default_ns == value(g, IEC \o "SCL", IEC \o "defaultNamespace")
        marker == IEC \o "namespace_"
        prefixed == {po \in predicate_objects(g, IEC \o "SCL") : startswith(po[1], marker)}
        prefixes == {str_remove(po[1], marker) : po \in prefixed}
    IN  [prefix \in {""} \cup prefixes |->
            IF prefix \in prefixes
            THEN str((CHOOSE po \in prefixed : str_remove(po[1], marker) = prefix)[2])
            ELSE IF truthy(default_ns) THEN str(default_ns) ELSE SCL_NS]

\* base64.b64decode, then etree.fromstring
_deserialize_private_element(base64_content) == base64_content[2][2]

\* _get_element_order that reads the IEC order only
_get_element_order_iec(g, u) ==
    IF truthy(value(g, u, IEC \o "order")) THEN int(value(g, u, IEC \o "order"))
    ELSE 0

\* lines 212-219
_get_element_order(g, u) ==
    IF truthy(value(g, u, IEC \o "order")) THEN int(value(g, u, IEC \o "order"))
    ELSE IF truthy(value(g, u, PRIVATE \o "order")) THEN int(value(g, u, PRIVATE \o "order"))
    ELSE 0

\* lines 249-255
skip_predicates ==
    {RDF_type, IEC \o "order", IEC \o "textContent", PRIVATE \o "order",
     PRIVATE \o "hasPrivate"}

\* lines 266-272: the attribute name a predicate stands for
attr_name_of(pred_str) ==
    LET attr_name == str_remove(pred_str, IEC) IN
    IF startswith(attr_name, "attr_")
    THEN unquote(SubSeq(attr_name, 6, Len(attr_name)))
    ELSE attr_name

\* lines 257-274: the attribute mapping of entity u
attributes_of(g, u) ==
    LET kept == {po \in predicate_objects(g, u) :
                    /\ ~startswith(po[1], IEC \o "has")
                    /\ po[1] \notin skip_predicates
                    /\ ~startswith(po[1], PRIVATE)}
        names == {attr_name_of(po[1]) : po \in kept}
    IN  [a \in names |-> str((CHOOSE po \in kept : attr_name_of(po[1]) = a)[2])]

\* lines 282-294: the (order, relation, child) entries gathered for entity u
children_of(g, u) ==
    {<<_get_element_order(g, str(po[2])), po[1], po[2]>> :
        po \in {x \in predicate_objects(g, u) :
                  /\ startswith(x[1], IEC \o "has")
                  /\ x[1] # IEC \o "hasPrivate"}}
    \cup {<<_get_element_order(g, str(o)), PRIVATE \o "hasPrivate", o>> :
            o \in objects(g, u, PRIVATE \o "hasPrivate")}

\* the children kept in one bucket per relation: the buckets in the order of
\* their first child, each bucket sorted by order
sort_by_relation(entries) ==
    LET bucket(e) == {f \in entries : f[2] = e[2]}
        key(e) == CHOOSE n \in {f[1] : f \in bucket(e)} : \A f \in bucket(e) : n <= f[1]
        RECURSIVE sorted(_)
        sorted(left) ==
            IF left = {} THEN <<>>
            ELSE LET first == CHOOSE e \in left : \A f \in left :
                                 key(e) < key(f) \/ (key(e) = key(f) /\ e[1] <= f[1])
                 IN  <<first>> \o sorted(left \ {first})
    IN  sorted(entries)

\* line 297: children.sort(key=lambda x: x[0])
RECURSIVE sort_by_order(_)
sort_by_order(entries) ==
    IF entries = {} THEN <<>>
    ELSE LET first == CHOOSE e \in entries : \A f \in entries : e[1] <= f[1]
         IN  <<first>> \o sort_by_order(entries \ {first})

\* lines 234-239: the tag of entity u, "" when it has no type in the IEC namespace
element_type_of(g, u) ==
    LET iec_types == {t \in objects(g, u, RDF_type) : startswith(str(t), IEC)} IN
    IF iec_types = {} THEN ""
    ELSE str_remove(str(CHOOSE t \in iec_types : TRUE), IEC)

\* lines 221-304: <<>> stands for None, <<element>> for an element
RECURSIVE _build_element(_, _)
_build_element(g, u) ==
    IF <<"uri", PRIVATE \o "PrivateSection">> \in objects(g, u, RDF_type)
    THEN IF truthy(value(g, u, PRIVATE \o "xmlContent"))
         THEN <<_deserialize_private_element(str(value(g, u, PRIVATE \o "xmlContent")))>>
         ELSE <<>>
    ELSE IF element_type_of(g, u) = "" THEN <<>>
    ELSE LET children == sort_by_order(children_of(g, u))
             text_content == value(g, u, IEC \o "textContent")
             RECURSIVE build_children(_)
             build_children(k) ==
                 IF k > Len(children) THEN <<>>
                 ELSE (IF children[k][3][1] = "uri"
                       THEN _build_element(g, str(children[k][3])) ELSE <<>>)
                      \o build_children(k + 1)
         IN  <<[tag |-> <<SCL_NS, element_type_of(g, u)>>,
                attrib |-> attributes_of(g, u),
                text |-> IF truthy(text_content) THEN str(text_content) ELSE "",
                children |-> build_children(1)]>>

\* line 309: the entities typed as the document root
scl_uris(g) == {t[1] : t \in {x \in g : x[2] = RDF_type /\ x[3] = <<"uri", IEC \o "SCL">>}}

\* convert without its check for a missing root
convert_result_unchecked(g, picked) ==
    [status |-> "ok", tree |-> _build_element(g, picked)]

\* lines 306-317 with root_uri the entry scl_uris[0] of the list
convert_result(g, picked) ==
    IF scl_uris(g) = {} THEN [status |-> "ValueError", tree |-> <<>>]
    ELSE [status |-> "ok", tree |-> _build_element(g, picked)]

\* Triples of other origin: a note on an entity of its own, a note on the
\* document's root entity, and a second entity typed as document root
OtherTriples(root) ==
    {<<"http://example.org/thing", "http://example.org/note", <<"lit", "n">>>>,
     <<root, "http://example.org/note", <<"lit", "n">>>>,
     <<"http://example.org/thing", RDF_type, <<"uri", IEC \o "SCL">>>>}

\* main, lines 375-377: the graph handed to the decoder is parsed from a
\* file, which may hold triples the encoder did not produce
Graph_parse ==
    /\ phase = "encoded"
    /\ extra = {}
    /\ \E t \in OtherTriples(uri[1]) : extra' = {t}
    /\ UNCHANGED <<doc, graph, order_counter, uri, pos, phase, root_uri, nsmap, result, other_vars>>

\* RDFToSCLConverter(graph).convert(): __init__ restores the namespaces, convert
\* takes the first root entity the graph lists
RDFToSCLConverter_convert ==
    /\ phase = "encoded"
    /\ nsmap' = _restore_namespaces(graph \cup extra)
    /\ \E picked \in (IF scl_uris(graph \cup extra) = {} THEN {""}
                      ELSE scl_uris(graph \cup extra)) :
          /\ root_uri' = picked
          /\ result' = convert_result(graph \cup extra, picked)
    /\ phase' = "decoded"
    /\ UNCHANGED <<doc, graph, order_counter, uri, pos, extra, other_vars>>

Next ==
    \/ etree_parse
    \/ SCLToRDFConverter_convert
    \/ _process_element
    \/ SCLToRDFConverter_return
    \/ Graph_parse
    \/ RDFToSCLConverter_convert

Spec == Init /\ [][Next]_vars

----------------------------------------------------------------------------
(* Documents with comments, attributes of any name and Private blocks       *)
(* without type; graphs with a child relation to an untyped entity; the     *)
(* comparison process_scl_file makes after the decode                       *)

MaxWideNodes == 3

\* a comment; an element with a plain attribute named like a child relation
\* and one named like an escaped attribute; a Private block without type
WideKinds ==
    ChildKinds \cup
    { [local |-> "#comment", text |-> "note", attrib |-> EmptyMap],
      [local |-> "C", text |-> "", attrib |-> ("hasFoo" :> "1") @@ ("attr_x" :> "2")],
      [local |-> "Private", text |-> "", attrib |-> EmptyMap] }

\* etree.parse, line 150, on such a file; a comment has no children
etree_parse_wide ==
    /\ phase = "parsed"
    /\ Len(doc.nodes) < MaxWideNodes
    /\ \E p \in AncestorsOrSelf(doc.nodes, Len(doc.nodes)), k \in WideKinds :
          /\ is_str_tag(doc.nodes[p])
          /\ doc' = [doc EXCEPT !.nodes = Append(@, Node(p, k))]
    /\ UNCHANGED <<graph, order_counter, uri, pos, phase, extra, root_uri, nsmap, result, other_vars>>

\* a child relation from the root entity to an entity without type triple
UntypedTriples(root) ==
    {<<root, IEC \o "hasThing", <<"uri", "http://example.org/thing">>>>}

\* main, lines 375-377: the decoder's graph is parsed from a file holding
\* such a triple
Graph_parse_untyped ==
    /\ phase = "encoded"
    /\ extra = {}
    /\ \E t \in UntypedTriples(uri[1]) : extra' = {t}
    /\ UNCHANGED <<doc, graph, order_counter, uri, pos, phase, root_uri, nsmap, result, other_vars>>

\* what two files of equal content have in common: the parsed tree and the
\* root's namespace declarations
Infoset(tree, root_nsmap) == <<tree, root_nsmap>>

\* scl_files.py lines 146-168: identical when the hashes are equal; otherwise
\* passed when both files parse, failed when etree.parse raises
validation_verdict(hashes_equal, both_parse) ==
    IF hashes_equal THEN "True"
    ELSE IF both_parse THEN "True"
    ELSE "False"

\* process_scl_file, lines 133-168: save_scl wrote the decoded tree of the
\* encoder's own graph, the two files are hashed and compared. Files of
\* different content have different bytes; files of equal content may differ
\* in formatting. lxml wrote the regenerated file, so that both files parse.
process_scl_file_compare ==
    /\ phase = "decoded"
    /\ extra = {}
    /\ result.status = "ok"
    /\ result.tree # <<>>
    /\ \E hashes_equal \in
            (IF Infoset(result.tree[1], nsmap) = Infoset(TreeOf(doc, 1), doc.nsmap)
             THEN BOOLEAN ELSE {FALSE}) :
          validation_passed' = validation_verdict(hashes_equal, TRUE)
    /\ phase' = "compared"
    /\ UNCHANGED <<doc, graph, order_counter, uri, pos, extra, root_uri, nsmap, result,
                   earlier_calls, converter2, api_vars, stack>>

NextWide ==
    \/ etree_parse_wide
    \/ SCLToRDFConverter_convert
    \/ _process_element
    \/ _process_element_raise
    \/ SCLToRDFConverter_return
    \/ Graph_parse_untyped
    \/ RDFToSCLConverter_convert
    \/ process_scl_file_compare

SpecWide == Init /\ [][NextWide]_vars

----------------------------------------------------------------------------
(* Properties of one encode call *)

Encoded == DOMAIN uri

Siblings(i, j) == i # j /\ doc.nodes[i].parent = doc.nodes[j].parent

\* the order values the graph records for entity u
RecordedOrders(u) ==
    {o[2] : o \in objects(graph, u, IEC \o "order") \cup objects(graph, u, PRIVATE \o "order")}

RecordedOrder(u) == CHOOSE n \in RecordedOrders(u) : TRUE

\* C3: within one encode call any two distinct nodes, regular elements or
\* Private blocks, have different URIs, also when siblings share tag and
\* id/name.
C3_UriUniqueness ==
    \A i \in Encoded : \A j \in Encoded : i # j => uri[i] # uri[j]

\* C3 witness: the encoder has finished a document in which two siblings
\* have the same tag and the same name.
C3_Witness ==
    /\ phase = "encoded"
    /\ \E i \in Encoded : \E j \in Encoded :
          /\ Siblings(i, j)
          /\ doc.nodes[i].local = doc.nodes[j].local
          /\ elem_id_of(doc.nodes[i]) # ""
          /\ elem_id_of(doc.nodes[i]) = elem_id_of(doc.nodes[j])

\* C4: every encoded node has exactly one recorded order value, and a node
\* that precedes another in pre-order has the strictly smaller one (so no
\* two nodes share a value and a parent's is below its descendants').
C4_OrderValues ==
    /\ \A i \in Encoded : Cardinality(RecordedOrders(uri[i])) = 1
    /\ \A i \in Encoded : \A j \in Encoded :
          i < j => RecordedOrder(uri[i]) < RecordedOrder(uri[j])

\* C4 witness: the encoder has finished a document with a grandchild, a
\* Private block and an element after the Private block.
C4_Witness ==
    /\ phase = "encoded"
    /\ \E i \in Encoded : \E j \in Encoded : \E k \in Encoded :
          /\ doc.nodes[i].parent # 0 /\ doc.nodes[doc.nodes[i].parent].parent # 0
          /\ doc.nodes[j].local = "Private"
          /\ k > j
          /\ RecordedOrder(uri[j]) < RecordedOrder(uri[k])

----------------------------------------------------------------------------
(* Properties of encode followed by decode *)

Kids(i) == ChildIndices(doc.nodes, i)

\* the decode ran on the encoder's triples alone
DecodedAlone == phase = "decoded" /\ extra = {}

\* the decode returned a tree grown from the entity of the document's root
DecodedFromRoot == phase = "decoded" /\ result.status = "ok" /\ root_uri = uri[1]

\* canonical form: direct text trimmed of surrounding whitespace
RECURSIVE Canonical(_)
Canonical(t) ==
    [tag |-> t.tag, attrib |-> t.attrib, text |-> strip(t.text),
     children |-> [k \in 1..Len(t.children) |-> Canonical(t.children[k])]]

\* C1: decoding the graph the encoder returned for a document yields a tree
\* with the same tag, attributes, text and child sequence as the document at
\* every level.
C1_RoundTrip ==
    DecodedAlone =>
        /\ result.status = "ok"
        /\ Len(result.tree) = 1
        /\ Canonical(result.tree[1]) = Canonical(TreeOf(doc, 1))

\* the tags of the children of decoded element t are those of node i's
\* children, in the document's order, at every level the encoder walked
RECURSIVE SameChildOrder(_, _)
SameChildOrder(t, i) ==
    /\ Len(t.children) = Len(Kids(i))
    /\ \A k \in 1..Len(Kids(i)) :
          /\ t.children[k].tag[2] = doc.nodes[Kids(i)[k]].local
          /\ doc.nodes[Kids(i)[k]].local # "Private"
                => SameChildOrder(t.children[k], Kids(i)[k])

\* C2: the decoder puts the children of all child relations of an element
\* into one sequence sorted by order value, so that children of mixed tags
\* come back in the document's order (A,B,A,B stays A,B,A,B).
C2_SiblingOrder ==
    DecodedFromRoot => SameChildOrder(result.tree[1], 1)

LocalTags(t) == [k \in 1..Len(t.children) |-> t.children[k].tag[2]]

\* C2 witness: a document whose root has the children A,B,A,B was decoded
\* with the children in that order.
C2_Witness ==
    /\ DecodedFromRoot
    /\ [k \in 1..Len(Kids(1)) |-> doc.nodes[Kids(1)[k]].local] = <<"A", "B", "A", "B">>
    /\ LocalTags(result.tree[1]) = <<"A", "B", "A", "B">>

\* every Private child below node i is decoded, at its place among its
\* siblings, as exactly the subtree the document has there
RECURSIVE PrivateInPlace(_, _)
PrivateInPlace(t, i) ==
    /\ Len(t.children) = Len(Kids(i))
    /\ \A k \in 1..Len(Kids(i)) :
          IF doc.nodes[Kids(i)[k]].local = "Private"
          THEN t.children[k] = TreeOf(doc, Kids(i)[k])
          ELSE PrivateInPlace(t.children[k], Kids(i)[k])

----------------------------------------------------------------------------
(* Properties of the decoder's choice of root *)

DecoderGraph == graph \cup extra

\* C7: decoding a triple set in which two or more entities carry the
\* document-root type fails with a root-not-found error and returns no tree.
C7_AmbiguousRootFails ==
    (phase = "decoded" /\ Cardinality(scl_uris(DecoderGraph)) >= 2)
        => (result.status = "ValueError" /\ result.tree = <<>>)

\* C8: decoding a triple set in which no entity carries the document-root
\* type fails with the root-not-found error and returns no tree.
C8_MissingRootFails ==
    (phase = "decoded" /\ scl_uris(DecoderGraph) = {})
        => (result.status = "ValueError" /\ result.tree = <<>>)

\* C8 witness: the triples of a document whose root is not an SCL element
\* were decoded, and the decode failed.
C8_Witness ==
    /\ phase = "decoded"
    /\ doc.nodes[1].local = "Root"
    /\ Len(doc.nodes) > 1
    /\ scl_uris(DecoderGraph) = {}
    /\ result.status = "ValueError"

----------------------------------------------------------------------------
(* Scenario 1 of the specification *)

Scenario1 ==
    [nsmap |-> ("" :> "ns1") @@ ("p" :> "ns2"),
     nodes |-> <<[parent |-> 0, local |-> "Root", text |-> "", attrib |-> EmptyMap],
                 [parent |-> 1, local |-> "A", text |-> "", attrib |-> ("name" :> "x")],
                 [parent |-> 1, local |-> "B", text |-> "hello", attrib |-> ("id" :> "y")],
                 [parent |-> 1, local |-> "A", text |-> "", attrib |-> ("name" :> "x")]>>]

NamespacePredicates == {IEC \o "defaultNamespace", IEC \o "namespace_p"}

\* C9: encoding Scenario 1 yields 3 distinct element URIs for A, B, A, one
\* textContent triple, "hello" on B's URI, and two namespace triples on the
\* root; decoding the triples gives the three children in the order A, B, A.
C9_Scenario1 ==
    (doc = Scenario1 /\ DecodedAlone) =>
        /\ Cardinality({uri[2], uri[3], uri[4]}) = 3
        /\ {t \in graph : t[2] = IEC \o "textContent"}
              = {<<uri[3], IEC \o "textContent", <<"lit", "hello">>>>}
        /\ Cardinality({t \in graph : t[2] \in NamespacePredicates}) = 2
        /\ \A t \in graph : t[2] \in NamespacePredicates => t[1] = uri[1]
        /\ result.status = "ok"
        /\ Len(result.tree) = 1
        /\ LocalTags(result.tree[1]) = <<"A", "B", "A">>

----------------------------------------------------------------------------
(* Triples of other origin *)

Vocabulary(p) == p = RDF_type \/ startswith(p, IEC) \/ startswith(p, PRIVATE)

\* C10: decoding the encoder's triples together with triples the encoder did
\* not produce, with predicates outside the codec's vocabulary, yields the
\* tree that decoding the encoder's triples alone yields.
C10_UnrelatedIgnored ==
    (phase = "decoded" /\ extra # {} /\ \A t \in extra : ~Vocabulary(t[2]))
        => result = convert_result(graph, root_uri)

----------------------------------------------------------------------------
(* The URI of a node *)

ParentUri(i) == IF doc.nodes[i].parent = 0 THEN "" ELSE uri[doc.nodes[i].parent]

\* the URI the four cases give node i when the number n is embedded in it
UriByRule(i, n) ==
    LET element == doc.nodes[i]
        idOrName == elem_id_of(element)
        parentURI == ParentUri(i)
    IN  IF idOrName # "" /\ parentURI # ""
            THEN parentURI \o "/" \o quote(idOrName) \o "_" \o ToString(n)
        ELSE IF idOrName # ""
            THEN IEC \o element.local \o "/" \o quote(idOrName)
        ELSE IF parentURI # ""
            THEN parentURI \o "/" \o element.local \o "_" \o ToString(n)
        ELSE IEC \o element.local \o "_" \o ToString(n)

\* C18 as stated: every encoded node's URI follows the four cases (parent and
\* id/name, root with id/name, parent without id/name, root without id/name),
\* the order embedded in the URI being the order value recorded for the node
\* in its order triple.
C18_UriRule ==
    \A i \in Encoded : uri[i] = UriByRule(i, RecordedOrder(uri[i]))

----------------------------------------------------------------------------
(* A converter object used for several files, and two converter objects     *)
(* at work at the same time                                                 *)

MaxSmallNodes == 2

MaxCalls == 2

\* etree.parse, line 150, of a small file
etree_parse_small ==
    /\ phase = "parsed"
    /\ Len(doc.nodes) < MaxSmallNodes
    /\ \E p \in AncestorsOrSelf(doc.nodes, Len(doc.nodes)), k \in ChildKinds :
          doc' = [doc EXCEPT !.nodes = Append(@, Node(p, k))]
    /\ UNCHANGED <<graph, order_counter, uri, pos, phase, extra, root_uri, nsmap, result, other_vars>>

\* converter.convert(other_file) on the object that has returned from a
\* convert call: graph and order_counter are assigned in __init__ alone
\* (lines 35, 43), convert (lines 147-168) does not reset them
convert_next_file ==
    /\ phase = "encoded"
    /\ earlier_calls + 1 < MaxCalls
    /\ \E rk \in RootKinds : doc' = [nsmap |-> rk.nsmap, nodes |-> <<Node(0, rk)>>]
    /\ uri' = EmptyMap
    /\ pos' = 0
    /\ phase' = "parsed"
    /\ earlier_calls' = earlier_calls + 1
    /\ UNCHANGED <<graph, order_counter, extra, root_uri, nsmap, result,
                   converter2, validation_passed, api_vars, stack>>

NextReuse ==
    \/ etree_parse_small
    \/ SCLToRDFConverter_convert
    \/ _process_element
    \/ SCLToRDFConverter_return
    \/ convert_next_file

SpecReuse == Init /\ [][NextReuse]_vars

\* _process_element, lines 81-145, on the element st.pos of the tree st.doc
\* of a converter object st
process_element_on(st) ==
    LET element == st.doc.nodes[st.pos]
        parent_uri == IF element.parent = 0 THEN "" ELSE st.uri[element.parent]
        created == _create_element_uri(element, parent_uri, st.order_counter)
        order == _get_next_order(created.counter)
    IN  [st EXCEPT
            !.order_counter = order,
            !.uri = (st.pos :> created.uri) @@ @,
            !.graph = IF element.local = "Private"
                      THEN @ \cup PrivateTriples(st.doc, st.pos, created.uri, parent_uri, order)
                      ELSE @ \cup ElementTriples(st.doc, st.pos, created.uri, parent_uri, order),
            !.pos = IF element.local = "Private"
                    THEN SubtreeEnd(st.doc.nodes, st.pos) ELSE @ + 1]

\* the walk from element st.pos to the end of the tree
RECURSIVE process_rest(_)
process_rest(st) ==
    IF st.pos > Len(st.doc.nodes) THEN st ELSE process_rest(process_element_on(st))

\* SCLToRDFConverter().convert(d), lines 34-43 and 147-168: a new object
\* converts the tree d with nothing else going on
convert_alone(d) ==
    process_rest([doc |-> d, graph |-> NamespaceTriples(d.nsmap), order_counter |-> 0,
                  uri |-> EmptyMap, pos |-> 1, phase |-> "encoding"])

\* self.order_counter read through a counter all converter objects share
self_order_counter_shared(own, other) == other

\* self.order_counter, lines 43 and 47: an attribute of the object, given the
\* counter of the object itself and that of the other object
self_order_counter(own, other) == own

\* two new converter objects, each handed a file of its own
InitPar ==
    /\ \E rk \in RootKinds : doc = [nsmap |-> rk.nsmap, nodes |-> <<Node(0, rk)>>]
    /\ graph = {}
    /\ order_counter = 0
    /\ uri = EmptyMap
    /\ pos = 0
    /\ phase = "parsed"
    /\ extra = {}
    /\ root_uri = ""
    /\ nsmap = EmptyMap
    /\ result = [status |-> "none", tree |-> <<>>]
    /\ earlier_calls = 0
    /\ validation_passed = "None"
    /\ NoUploads
    /\ stack = <<>>
    /\ \E rk \in RootKinds :
          converter2 = [doc |-> [nsmap |-> rk.nsmap, nodes |-> <<Node(0, rk)>>],
                        graph |-> {}, order_counter |-> 0, uri |-> EmptyMap,
                        pos |-> 0, phase |-> "parsed"]

codec_vars == <<doc, graph, order_counter, uri, pos, phase, extra, root_uri, nsmap, result>>

\* etree.parse, line 150, in the second object's convert call
etree_parse_2 ==
    /\ converter2.phase = "parsed"
    /\ Len(converter2.doc.nodes) < MaxSmallNodes
    /\ \E p \in AncestorsOrSelf(converter2.doc.nodes, Len(converter2.doc.nodes)),
          k \in ChildKinds :
          converter2' = [converter2 EXCEPT !.doc.nodes = Append(@, Node(p, k))]
    /\ UNCHANGED <<codec_vars, earlier_calls, validation_passed, api_vars, stack>>

\* lines 147-163 on the second object
SCLToRDFConverter_convert_2 ==
    /\ converter2.phase = "parsed"
    /\ converter2' = [converter2 EXCEPT
            !.graph = @ \cup NamespaceTriples(converter2.doc.nsmap),
            !.pos = 1,
            !.phase = "encoding"]
    /\ UNCHANGED <<codec_vars, earlier_calls, validation_passed, api_vars, stack>>

\* one call of _process_element on the second object
_process_element_2 ==
    /\ converter2.phase = "encoding"
    /\ converter2.pos <= Len(converter2.doc.nodes)
    /\ converter2' = process_element_on(
            [converter2 EXCEPT
                !.order_counter = self_order_counter(@, order_counter)])
    /\ UNCHANGED <<codec_vars, earlier_calls, validation_passed, api_vars, stack>>

\* line 168 on the second object
SCLToRDFConverter_return_2 ==
    /\ converter2.phase = "encoding"
    /\ converter2.pos > Len(converter2.doc.nodes)
    /\ converter2' = [converter2 EXCEPT !.phase = "encoded"]
    /\ UNCHANGED <<codec_vars, earlier_calls, validation_passed, api_vars, stack>>

\* the steps of the two convert calls in any order
NextPar ==
    \/ etree_parse_small
    \/ SCLToRDFConverter_convert
    \/ _process_element
    \/ SCLToRDFConverter_return
    \/ etree_parse_2
    \/ SCLToRDFConverter_convert_2
    \/ _process_element_2
    \/ SCLToRDFConverter_return_2

SpecPar == InitPar /\ [][NextPar]_vars

\* the order values recorded in graph g for the nodes with the URIs u
OrdersIn(g, u) ==
    [i \in DOMAIN u |->
        {o[2] : o \in objects(g, u[i], IEC \o "order") \cup objects(g, u[i], PRIVATE \o "order")}]

\* C13: two conversions on two converter objects, their traversal steps
\* interleaved in any order, each return exactly the triple set, URIs and
\* order values the conversion of the same document returns when run alone.
C13_Independent ==
    /\ phase = "encoded" =>
          /\ graph = convert_alone(doc).graph
          /\ uri = convert_alone(doc).uri
          /\ OrdersIn(graph, uri) = OrdersIn(convert_alone(doc).graph, convert_alone(doc).uri)
    /\ converter2.phase = "encoded" =>
          /\ converter2.graph = convert_alone(converter2.doc).graph
          /\ converter2.uri = convert_alone(converter2.doc).uri
          /\ OrdersIn(converter2.graph, converter2.uri)
                = OrdersIn(convert_alone(converter2.doc).graph,
                           convert_alone(converter2.doc).uri)

\* C13 witness: both conversions have returned, each for a document of its
\* own with an element below the root, one of them holding a Private block.
C13_Witness ==
    /\ phase = "encoded"
    /\ converter2.phase = "encoded"
    /\ doc # converter2.doc
    /\ Len(doc.nodes) > 1
    /\ Len(converter2.doc.nodes) > 1
    /\ converter2.doc.nodes[2].local = "Private"

\* C12: every encode call starts from an empty triple set and the order
\* counter 0, and the triple set it returns for a document is the one a new
\* converter returns for that document, whatever the same converter object
\* encoded before: it holds no triple of the earlier document.
C12_NoCarryOver ==
    /\ phase = "parsed" => (graph = {} /\ order_counter = 0)
    /\ phase = "encoded" => graph = convert_alone(doc).graph

----------------------------------------------------------------------------
(* Private blocks in the graph *)

Descendants(i) ==
    {j \in 1..Len(doc.nodes) : j # i /\ i \in AncestorsOrSelf(doc.nodes, j)}

HasType(element) == "type" \in DOMAIN element.attrib

----------------------------------------------------------------------------
(* Failures of the encoder and silent omissions of the decoder *)

\* C16: the encoder raises for no parsed tree, and a comment or processing
\* instruction in the tree is skipped: it gets no URI and no triples.
C16_EncoderTotal ==
    /\ phase # "encode_failed"
    /\ \A i \in Encoded : is_str_tag(doc.nodes[i])

\* C14: a call that fails part-way leaves no partial result. After a failed
\* encode call on a new converter the triple set is empty and the order
\* counter is 0, as before the call; a failed decode call returns no tree.
C14_AtomicFailure ==
    /\ (phase = "encode_failed" /\ earlier_calls = 0)
          => (graph = {} /\ order_counter = 0)
    /\ (phase = "decoded" /\ result.status # "ok") => result.tree = <<>>

\* the child relations of entity u whose target has no recognised type triple
UntypedChildren(g, u) ==
    {po \in predicate_objects(g, u) :
        /\ startswith(po[1], IEC \o "has") \/ po[1] = PRIVATE \o "hasPrivate"
        /\ \A ty \in objects(g, str(po[2]), RDF_type) :
              /\ ty # <<"uri", PRIVATE \o "PrivateSection">>
              /\ ~startswith(str(ty), IEC)}

\* C15: when the root entity the decoder rebuilds has a child relation to a
\* target without recognised type triple, the decode ends in an
\* UnknownTypeError; it does not return a tree that lacks the child.
C15_UnknownChildType ==
    (phase = "decoded" /\ scl_uris(DecoderGraph) # {}
        /\ UntypedChildren(DecoderGraph, root_uri) # {})
    => result.status = "UnknownTypeError"

----------------------------------------------------------------------------
(* Attributes *)

\* the decoded tree t has the attributes of node i, at every level
RECURSIVE AttributesRestored(_, _)
AttributesRestored(t, i) ==
    /\ t.attrib = doc.nodes[i].attrib
    /\ Len(t.children) = Len(Kids(i)) =>
          \A k \in 1..Len(Kids(i)) : AttributesRestored(t.children[k], Kids(i)[k])

\* C19: every attribute of an encoded regular element has exactly one triple,
\* holding its value under the predicate of its name; two different attribute
\* names of an element have different predicates; and the decoder gives every
\* element back its attributes with their original names and values.
C19_Attributes ==
    /\ \A i \in Encoded : doc.nodes[i].local # "Private" =>
          LET attrib == doc.nodes[i].attrib IN
          /\ \A a \in DOMAIN attrib :
                {t[3] : t \in {x \in graph : x[1] = uri[i] /\ x[2] = attr_uri_of(a)}}
                    = {<<"lit", attrib[a]>>}
          /\ \A a \in DOMAIN attrib : \A b \in DOMAIN attrib :
                a # b => attr_uri_of(a) # attr_uri_of(b)
    /\ (DecodedAlone /\ DecodedFromRoot /\ result.tree # <<>>)
          => AttributesRestored(result.tree[1], 1)

----------------------------------------------------------------------------
(* The comparison of the original with the regenerated file *)

\* C11: validation_passed is True only when the regenerated document is
\* byte-identical to the original or equal to it in canonical form; a
\* regenerated document that differs in content, child order or attributes
\* is not reported as passed.
C11_RoundTripVerdict ==
    (phase = "compared" /\ validation_passed = "True")
        => Canonical(result.tree[1]) = Canonical(TreeOf(doc, 1))

----------------------------------------------------------------------------
(* api/scl_files.py: uploads and their background tasks *)

MaxUploads == 2

\* the files users upload: D1 is an SCL document, D2 a well-formed XML
\* document whose root element is not SCL, D3 is not XML
Documents == {"D1", "D2", "D3"}

\* lines 209-213: the names the extension check accepts
Filenames == {"a.scd", "a.icd", "A.SCD"}

UPLOAD_DIR == "/app/uploads/scl"

\* s.replace(old, new), scanning left to right from position i
RECURSIVE str_replace_from(_, _, _, _)
str_replace_from(s, old, new, i) ==
    IF i + Len(old) - 1 > Len(s) THEN SubSeq(s, i, Len(s))
    ELSE IF SubSeq(s, i, i + Len(old) - 1) = old
         THEN new \o str_replace_from(s, old, new, i + Len(old))
    ELSE SubSeq(s, i, i) \o str_replace_from(s, old, new, i + 1)

str_replace(s, old, new) ==
    IF Len(old) = 0 THEN s ELSE str_replace_from(s, old, new, 1)

\* lines 226-228: the timestamp has the resolution of one second
file_path_of(timestamp, filename) ==
    UPLOAD_DIR \o "/" \o ToString(timestamp) \o "_" \o filename

\* line 87: the three replacements, each applied to the result of the one
\* before
rdf_path_of(scl_path) ==
    CHOOSE rdf_path \in
        {str_replace(s2, ".cid", ".ttl") :
            s2 \in {str_replace(s1, ".icd", ".ttl") :
                s1 \in {str_replace(scl_path, ".scd", ".ttl")}}} : TRUE

\* line 131
validated_scl_path_of(scl_path) ==
    CHOOSE validated_scl_path \in
        {str_replace(s2, ".cid", "_validated.cid") :
            s2 \in {str_replace(s1, ".icd", "_validated.icd") :
                s1 \in {str_replace(scl_path, ".scd", "_validated.scd")}}} : TRUE

\* line 104
dataset_name(file_id) == "scl_file_" \o ToString(file_id)

\* etree.parse, lines 150 and 155-156, accepts the file: it is an uploaded
\* XML document or a document lxml wrote (save_scl)
well_formed(file) ==
    \/ file[1] = "scl" /\ file[2] \in {"D1", "D2"}
    \/ file[1] = "regenerated"

\* RDFToSCLConverter.convert, lines 309-312, finds a root typed SCL
has_scl_root(rdf_graph) == rdf_graph = "D1"

\* line 171
final_status(passed) == IF passed = "True" THEN "validated" ELSE "converted"

\* the files without those at the given paths (os.remove)
os_remove(files, paths) == [path \in DOMAIN files \ paths |-> files[path]]

InitApi ==
    /\ doc = [nsmap |-> EmptyMap, nodes |-> <<>>]
    /\ graph = {}
    /\ order_counter = 0
    /\ uri = EmptyMap
    /\ pos = 0
    /\ phase = "idle"
    /\ extra = {}
    /\ root_uri = ""
    /\ nsmap = EmptyMap
    /\ result = [status |-> "none", tree |-> <<>>]
    /\ earlier_calls = 0
    /\ converter2 = NoConverter
    /\ validation_passed = "None"
    /\ NoUploads
    /\ stack = <<>>

not_api_vars ==
    <<doc, graph, order_counter, uri, pos, phase, extra, root_uri, nsmap, result,
      earlier_calls, converter2, validation_passed, stack>>

\* upload_scl_file, lines 195-258: the file is written below UPLOAD_DIR, the
\* row is inserted under the next id and the background task is queued with
\* the id and the path; the upload happens in the second of the previous
\* upload or in a later one
upload_scl_file_within(max_uploads) ==
    /\ Len(tasks) < max_uploads
    /\ \E filename \in Filenames, contents \in Documents, timestamp \in {now, now + 1} :
          LET file_path == file_path_of(timestamp, filename)
              file_id == Len(tasks) + 1
          IN
          /\ now' = timestamp
          /\ fs' = (file_path :> <<"scl", contents>>) @@ fs
          /\ scl_files' = (file_id :>
                [filename |-> ToString(timestamp) \o "_" \o filename,
                 scl_path |-> file_path, status |-> "uploaded",
                 rdf_path |-> "", validated_scl_path |-> "",
                 fuseki_dataset |-> "", validation_passed |-> "None",
                 error_message |-> "None"]) @@ scl_files
          /\ tasks' = Append(tasks,
                [pc |-> "queued", scl_path |-> file_path, rdf_graph |-> "",
                 conversion_stage |-> "None", progress_percent |-> 0])
    /\ UNCHANGED <<datasets, not_api_vars, stack>>

upload_scl_file == upload_scl_file_within(MaxUploads)

\* db.commit() of the run's session: the changed columns reach the row; when
\* the row has been deleted the UPDATE matches no row and commit raises, in
\* the handler of lines 180-189 too, so that the run ends with the exception
commit(file_id, task, pc, row) ==
    IF file_id \in DOMAIN scl_files
    THEN /\ scl_files' = [scl_files EXCEPT ![file_id] = row]
         /\ tasks' = [tasks EXCEPT ![file_id] = [task EXCEPT !.pc = pc]]
    ELSE /\ scl_files' = scl_files
         /\ tasks' = [tasks EXCEPT ![file_id] = [task EXCEPT !.pc = "crashed"]]

\* the exception of a step is raised again without being recorded
process_scl_file_except_unrecorded(file_id, task, e) ==
    commit(file_id, task, "failed", scl_files[file_id])

\* lines 180-189: the exception e of a step is recorded and raised again
process_scl_file_except(file_id, task, e) ==
    commit(file_id, task, "failed",
           [scl_files[file_id] EXCEPT !.status = "failed", !.error_message = e])

\* process_scl_file, lines 57-73: the row is read; without a row the run
\* returns
process_scl_file_start(file_id) ==
    /\ tasks[file_id].pc = "queued"
    /\ IF file_id \notin DOMAIN scl_files
       THEN /\ tasks' = [tasks EXCEPT ![file_id].pc = "returned"]
            /\ scl_files' = scl_files
       ELSE commit(file_id,
                   [tasks[file_id] EXCEPT !.conversion_stage = "parsing",
                                          !.progress_percent = 5],
                   "parsing",
                   [scl_files[file_id] EXCEPT !.status = "converting"])
    /\ UNCHANGED <<fs, datasets, now, not_api_vars, stack>>

\* lines 77-84: a new converter parses and converts the file at scl_path;
\* the commit of line 80 changes no column
process_scl_file_convert(file_id) ==
    /\ tasks[file_id].pc = "parsing"
    /\ LET scl_path == tasks[file_id].scl_path
           task == [tasks[file_id] EXCEPT !.conversion_stage = "converting",
                                          !.progress_percent = 20]
       IN  IF scl_path \in DOMAIN fs /\ well_formed(fs[scl_path])
           THEN /\ tasks' = [tasks EXCEPT ![file_id] =
                        [task EXCEPT !.pc = "converted",
                                     !.rdf_graph = fs[scl_path][2]]]
                /\ scl_files' = scl_files
           ELSE process_scl_file_except(file_id, task, "parse error")
    /\ UNCHANGED <<fs, datasets, now, not_api_vars, stack>>

\* lines 87-94: converter.save_rdf(rdf_path)
process_scl_file_save_rdf(file_id) ==
    /\ tasks[file_id].pc = "converted"
    /\ LET rdf_path == rdf_path_of(tasks[file_id].scl_path) IN
          /\ fs' = (rdf_path :> <<"ttl", tasks[file_id].rdf_graph>>) @@ fs
          /\ commit(file_id, [tasks[file_id] EXCEPT !.progress_percent = 50], "saved",
                    [scl_files[file_id] EXCEPT !.rdf_path = rdf_path])
    /\ UNCHANGED <<datasets, now, not_api_vars, stack>>

\* lines 98-115: the dataset is created; the error of an existing dataset
\* is ignored; the commits of lines 101 and 115 change no column
process_scl_file_create_dataset(file_id) ==
    /\ tasks[file_id].pc = "saved"
    /\ datasets' = IF dataset_name(file_id) \in DOMAIN datasets THEN datasets
                   ELSE (dataset_name(file_id) :> {}) @@ datasets
    /\ tasks' = [tasks EXCEPT ![file_id] =
            [@ EXCEPT !.pc = "created", !.conversion_stage = "uploading",
                      !.progress_percent = 70]]
    /\ UNCHANGED <<scl_files, fs, now, not_api_vars, stack>>

\* lines 118-121: rdf_client.upload_file posts the file at rdf_path to the
\* dataset, which adds the triples to those it holds; the request fails
\* when the server answers with an error, as it does for a body that is not
\* Turtle
process_scl_file_upload(file_id) ==
    /\ tasks[file_id].pc = "created"
    /\ LET dataset == dataset_name(file_id)
           rdf_path == rdf_path_of(tasks[file_id].scl_path)
       IN  \E http_ok \in BOOLEAN :
             IF /\ http_ok
                /\ rdf_path \in DOMAIN fs
                /\ fs[rdf_path][1] = "ttl"
                /\ dataset \in DOMAIN datasets
             THEN /\ datasets' = [datasets EXCEPT ![dataset] = @ \cup {fs[rdf_path][2]}]
                  /\ commit(file_id, [tasks[file_id] EXCEPT !.progress_percent = 80],
                            "uploaded",
                            [scl_files[file_id] EXCEPT !.fuseki_dataset = dataset])
             ELSE /\ datasets' = datasets
                  /\ process_scl_file_except(file_id, tasks[file_id], "upload failed")
    /\ UNCHANGED <<fs, now, not_api_vars, stack>>

\* lines 125-140: the decoder writes the regenerated document of the run's
\* graph to validated_scl_path
process_scl_file_validate(file_id) ==
    /\ tasks[file_id].pc = "uploaded"
    /\ LET validated_scl_path == validated_scl_path_of(tasks[file_id].scl_path)
           task == [tasks[file_id] EXCEPT !.conversion_stage = "validating",
                                          !.progress_percent = 85]
       IN  IF has_scl_root(tasks[file_id].rdf_graph)
           THEN /\ fs' = (validated_scl_path :>
                            <<"regenerated", tasks[file_id].rdf_graph>>) @@ fs
                /\ commit(file_id, [task EXCEPT !.progress_percent = 95], "regenerated",
                          [scl_files[file_id] EXCEPT
                              !.validated_scl_path = validated_scl_path])
           ELSE /\ fs' = fs
                /\ process_scl_file_except(file_id, task,
                                           "No SCL root element found in RDF graph")
    /\ UNCHANGED <<datasets, now, not_api_vars, stack>>

\* lines 142-176: the two files are read and compared and the final status
\* is set
process_scl_file_finish(file_id) ==
    /\ tasks[file_id].pc = "regenerated"
    /\ LET scl_path == tasks[file_id].scl_path
           validated_scl_path == validated_scl_path_of(scl_path)
       IN  IF scl_path \in DOMAIN fs /\ validated_scl_path \in DOMAIN fs
           THEN LET passed == validation_verdict(
                        fs[scl_path] = fs[validated_scl_path],
                        well_formed(fs[scl_path])
                            /\ well_formed(fs[validated_scl_path]))
                IN  commit(file_id,
                           [tasks[file_id] EXCEPT !.conversion_stage = "complete",
                                                  !.progress_percent = 100],
                           "complete",
                           [scl_files[file_id] EXCEPT
                               !.validation_passed = passed,
                               !.status = final_status(passed)])
           ELSE process_scl_file_except(file_id, tasks[file_id], "No such file")
    /\ UNCHANGED <<fs, datasets, now, not_api_vars, stack>>

\* the background task of one upload, lines 38-191
process_scl_file(file_id) ==
    \/ process_scl_file_start(file_id)
    \/ process_scl_file_convert(file_id)
    \/ process_scl_file_save_rdf(file_id)
    \/ process_scl_file_create_dataset(file_id)
    \/ process_scl_file_upload(file_id)
    \/ process_scl_file_validate(file_id)
    \/ process_scl_file_finish(file_id)

\* delete_scl_file, lines 435-463: the files at the paths of the row are
\* removed, the dataset named in the row is deleted, where a failure of the
\* request is ignored, and the row is deleted
delete_scl_file(file_id) ==
    /\ file_id \in DOMAIN scl_files
    /\ LET scl_file == scl_files[file_id] IN
          /\ fs' = os_remove(fs, {scl_file.scl_path, scl_file.rdf_path,
                                  scl_file.validated_scl_path})
          /\ \E http_ok \in BOOLEAN :
                datasets' = IF scl_file.fuseki_dataset # "" /\ http_ok
                            THEN [dataset \in DOMAIN datasets \ {scl_file.fuseki_dataset}
                                    |-> datasets[dataset]]
                            ELSE datasets
    /\ scl_files' = [id \in DOMAIN scl_files \ {file_id} |-> scl_files[id]]
    /\ UNCHANGED <<tasks, now, not_api_vars, stack>>

\* requests and background tasks run concurrently
NextApi ==
    \/ upload_scl_file
    \/ \E file_id \in DOMAIN tasks : process_scl_file(file_id)
    \/ \E file_id \in DOMAIN scl_files : delete_scl_file(file_id)

SpecApi == InitApi /\ [][NextApi]_vars

\* one upload, its background task and its deletion
MaxRuns == 1

NextRun ==
    \/ upload_scl_file_within(MaxRuns)
    \/ \E file_id \in DOMAIN tasks : process_scl_file(file_id)
    \/ \E file_id \in DOMAIN scl_files : delete_scl_file(file_id)

\* a background task, once added, runs to its end in its worker thread
SpecRun ==
    /\ InitApi
    /\ [][NextRun]_vars
    /\ \A file_id \in 1..MaxRuns :
          WF_vars(file_id \in DOMAIN tasks /\ process_scl_file(file_id))

\* C17: every processing run writes its triples, those of the document it
\* converted, to the dataset named from its own file id, and no dataset
\* receives triples of two different documents, however the runs of
\* different uploaded files interleave.
C17_DestinationIsolation ==
    /\ \A file_id \in DOMAIN tasks \cap DOMAIN scl_files :
        tasks[file_id].pc = "uploaded" =>
          /\ scl_files[file_id].fuseki_dataset = "scl_file_" \o ToString(file_id)
          /\ tasks[file_id].rdf_graph \in datasets[scl_files[file_id].fuseki_dataset]
    /\ \A dataset \in DOMAIN datasets : Cardinality(datasets[dataset]) <= 1

----------------------------------------------------------------------------
(* Text, namespaces, root marker and relations in the encoder's graph *)

Regular(i) == doc.nodes[i].local # "Private"

NamespaceTriplesIn(g) ==
    {t \in g : t[2] = IEC \o "defaultNamespace" \/ startswith(t[2], IEC \o "namespace_")}

\* C22: every namespace triple, default or prefixed, has as subject the
\* entity that carries the root element's type, order and attribute triples,
\* and the root's namespaces are recorded once: one triple per declaration.
C22_NamespacesOnRoot ==
    (phase = "encoded") =>
        /\ \A t \in NamespaceTriplesIn(graph) : t[1] = uri[1]
        /\ Cardinality(NamespaceTriplesIn(graph)) = Cardinality(DOMAIN doc.nsmap)

\* C23: after an encode call exactly one entity carries the type by which
\* the decoder finds the document root, and it is the entity of the tree's
\* root element, whatever the root's tag and the tags below it.
C23_RootMarker ==
    (phase = "encoded") => scl_uris(graph) = {uri[1]}

\* the nodes outside every Private block: those the walk visits
Visited(i) == \A j \in AncestorsOrSelf(doc.nodes, i) : j = i \/ Regular(j)

\* the triples that relate a parent to the child entity u
RelationsTo(u) ==
    {t \in graph : /\ t[3] = <<"uri", u>>
                   /\ startswith(t[2], IEC \o "has") \/ t[2] = PRIVATE \o "hasPrivate"}

----------------------------------------------------------------------------
(* Attribute predicates and structural predicates *)

\* lines 262-265: the predicate is one the decoder keeps as an attribute
ReadAsAttribute(pred) ==
    /\ pred \notin skip_predicates
    /\ ~startswith(pred, IEC \o "has")
    /\ ~startswith(pred, PRIVATE)

\* lines 266-269: the decoder takes the predicate for an escaped name
ReadAsEscaped(pred) ==
    startswith(str_remove(pred, IEC), "attr_")

\* C24: for every attribute name of an encoded regular element, the
\* predicate the encoder emits is one the decoder reads back as an
\* attribute: it is not the order marker, the text-content marker or a type,
\* it is no child relation (beginning with 'has'), and it is taken for an
\* escaped namespaced name (beginning with 'attr_') only when the encoder
\* escaped it.
C24_AttributePredicatesDisjoint ==
    \A i \in Encoded : Regular(i) =>
        \A a \in DOMAIN doc.nodes[i].attrib :
            /\ ReadAsAttribute(attr_uri_of(a))
            /\ ReadAsEscaped(attr_uri_of(a)) => startswith(a, "{")

----------------------------------------------------------------------------
(* The status flow of a processing run *)

StatusFlow ==
    {<<"uploaded", "converting">>, <<"converting", "validated">>,
     <<"converting", "converted">>, <<"converting", "failed">>}

\* the run of file_id has found its record
Started(file_id) ==
    file_id \in DOMAIN tasks /\ tasks[file_id].pc \notin {"queued", "returned"}

\* the run of file_id has come to its end
Ended(file_id) ==
    file_id \in DOMAIN tasks /\ tasks[file_id].pc \in {"complete", "failed", "crashed"}

\* a step changes the status of a row along the flow only and lowers the
\* progress of no run
StatusStep ==
    /\ \A file_id \in DOMAIN scl_files \cap DOMAIN scl_files' :
          scl_files'[file_id].status # scl_files[file_id].status =>
              <<scl_files[file_id].status, scl_files'[file_id].status>> \in StatusFlow
    /\ \A file_id \in DOMAIN tasks :
          tasks'[file_id].progress_percent >= tasks[file_id].progress_percent

StatusInv ==
    /\ \A file_id \in DOMAIN tasks :
          (tasks[file_id].progress_percent = 100)
              <=> (tasks[file_id].conversion_stage = "complete")
    /\ \A file_id \in DOMAIN scl_files :
          /\ scl_files[file_id].status = "validated"
                => scl_files[file_id].validation_passed = "True"
          /\ scl_files[file_id].status = "failed"
                => scl_files[file_id].error_message # "None"
          /\ Ended(file_id)
                => scl_files[file_id].status \in {"validated", "converted", "failed"}

\* C27: the status of an uploaded file only moves uploaded -> converting ->
\* validated, converted or failed; every run that found its record comes to
\* its end, and then the record, while it exists, has one of those three
\* statuses; the progress of a run never decreases and is 100 exactly when
\* its stage is 'complete'; status validated implies validation_passed, and
\* status failed implies an error message.
C27_StatusFlow ==
    /\ [][StatusStep]_vars
    /\ []StatusInv
    /\ \A file_id \in 1..MaxRuns : Started(file_id) ~> Ended(file_id)

\* C27 witness: a run has ended with status validated, stage complete and
\* progress 100.
C27_Witness ==
    \E file_id \in DOMAIN scl_files :
        /\ Ended(file_id)
        /\ scl_files[file_id].status = "validated"
        /\ tasks[file_id].conversion_stage = "complete"

----------------------------------------------------------------------------
(* The stored files of an upload *)

\* C28: processing never overwrites the uploaded original: for every
\* accepted file name the rdf_path and the validated_scl_path derived from
\* scl_path differ from scl_path, and the file at scl_path holds uploaded
\* bytes, so that the comparison reads the original and the regenerated file.
C28_OriginalKept ==
    \A file_id \in DOMAIN tasks :
        LET scl_path == tasks[file_id].scl_path IN
        /\ rdf_path_of(scl_path) # scl_path
        /\ validated_scl_path_of(scl_path) # scl_path
        /\ scl_path \in DOMAIN fs => fs[scl_path][1] = "scl"

\* C30: any two accepted uploads are stored under different paths, also
\* uploads of the same file name in the same second.
C30_UniquePaths ==
    \A i \in DOMAIN scl_files, j \in DOMAIN scl_files :
        i # j => scl_files[i].scl_path # scl_files[j].scl_path

\* the record of file_id has been deleted
Deleted(file_id) == file_id \in DOMAIN tasks /\ file_id \notin DOMAIN scl_files

\* the run of file_id takes no further step
RunOver(file_id) ==
    tasks[file_id].pc \in {"returned", "complete", "failed", "crashed"}

\* the paths of the original, the RDF file and the validated copy
PathsOf(file_id) ==
    {tasks[file_id].scl_path, rdf_path_of(tasks[file_id].scl_path),
     validated_scl_path_of(tasks[file_id].scl_path)}

\* C29: once a file has been deleted and its processing run is over, which
\* is the state that lasts, no stored file of it (other than one a remaining
\* record stores under the same path), no dataset of it and no record of it
\* remain, in any interleaving of the delete with the run and also when the
\* dataset deletion fails.
C29_DeleteLeavesNothing ==
    \A file_id \in DOMAIN tasks : (Deleted(file_id) /\ RunOver(file_id)) =>
        /\ \A path \in PathsOf(file_id) \cap DOMAIN fs :
              \E other \in DOMAIN scl_files : path \in PathsOf(other)
        /\ dataset_name(file_id) \notin DOMAIN datasets

----------------------------------------------------------------------------
(* RDFToSCLConverter._build_element call by call, on graphs of any origin *)

\* the depth of calls at which the interpreter raises RecursionError
\* (sys.getrecursionlimit()), scaled to the graphs below
MaxDepth == 4

\* three typed entities with their orders
CycleRoot == IEC \o "SCL_1"

CycleA == IEC \o "SCL_1/A_2"

CycleB == IEC \o "SCL_1/B_3"

EntityTriples ==
    {<<CycleRoot, RDF_type, <<"uri", IEC \o "SCL">>>>,
     <<CycleRoot, IEC \o "order", <<"int", 1>>>>,
     <<CycleA, RDF_type, <<"uri", IEC \o "A">>>>,
     <<CycleA, IEC \o "order", <<"int", 2>>>>,
     <<CycleB, RDF_type, <<"uri", IEC \o "B">>>>,
     <<CycleB, IEC \o "order", <<"int", 3>>>>}

\* the child relations a triple set may hold between them: those of a tree,
\* a second parent, a relation back to an ancestor, and a relation of the
\* root to itself
RelationTriples ==
    {<<CycleRoot, IEC \o "hasA", <<"uri", CycleA>>>>,
     <<CycleRoot, IEC \o "hasB", <<"uri", CycleB>>>>,
     <<CycleA, IEC \o "hasB", <<"uri", CycleB>>>>,
     <<CycleB, IEC \o "hasA", <<"uri", CycleA>>>>,
     <<CycleA, IEC \o "hasSCL", <<"uri", CycleRoot>>>>,
     <<CycleRoot, IEC \o "hasSCL", <<"uri", CycleRoot>>>>}

\* RDFToSCLConverter(graph), lines 178-185: the graph is a triple set with a
\* root entity
InitCycle ==
    /\ doc = [nsmap |-> EmptyMap, nodes |-> <<>>]
    /\ \E relations \in SUBSET RelationTriples : graph = EntityTriples \cup relations
    /\ order_counter = 0
    /\ uri = EmptyMap
    /\ pos = 0
    /\ phase = "graph"
    /\ extra = {}
    /\ root_uri = ""
    /\ nsmap = EmptyMap
    /\ result = [status |-> "none", tree |-> <<>>]
    /\ earlier_calls = 0
    /\ converter2 = NoConverter
    /\ validation_passed = "None"
    /\ NoUploads
    /\ stack = <<>>

\* the entity is neither a Private section nor without a type, lines 227-242
is_regular(g, u) ==
    /\ <<"uri", PRIVATE \o "PrivateSection">> \notin objects(g, u, RDF_type)
    /\ element_type_of(g, u) # ""

\* lines 244-297 of a call for a regular entity: the element with its
\* attributes and text, and the sorted children still to build
frame_of(g, u) ==
    LET text_content == value(g, u, IEC \o "textContent")
        children == sort_by_order(children_of(g, u))
    IN  [uri |-> u,
         element |-> [tag |-> <<SCL_NS, element_type_of(g, u)>>,
                      attrib |-> attributes_of(g, u),
                      text |-> IF truthy(text_content) THEN str(text_content) ELSE "",
                      children |-> <<>>],
         todo |-> [k \in 1..Len(children) |-> str(children[k][3])]]

cycle_vars ==
    <<doc, graph, order_counter, uri, pos, extra, earlier_calls, converter2,
      validation_passed, api_vars>>

\* convert, lines 309-315: the first call of _build_element, for the root
RDFToSCLConverter_convert_call ==
    /\ phase = "graph"
    /\ nsmap' = _restore_namespaces(graph)
    /\ \E picked \in scl_uris(graph) :
          /\ root_uri' = picked
          /\ stack' = <<frame_of(graph, picked)>>
    /\ phase' = "building"
    /\ UNCHANGED <<result, cycle_vars>>

\* line 300: the call for the next child. A call beyond the recursion limit
\* raises RecursionError, which no caller handles; a call for a Private
\* section or an entity without type returns at once (lines 227-242); a call
\* for a regular entity starts to build it
_build_element_call ==
    /\ phase = "building"
    /\ stack[Len(stack)].todo # <<>>
    /\ LET top == stack[Len(stack)]
           child_uri == Head(top.todo)
       IN  IF Len(stack) >= MaxDepth
           THEN /\ stack' = <<>>
                /\ phase' = "raised"
                /\ result' = [status |-> "RecursionError", tree |-> <<>>]
           ELSE IF is_regular(graph, child_uri)
           THEN /\ stack' = Append([stack EXCEPT ![Len(stack)].todo = Tail(top.todo)],
                                   frame_of(graph, child_uri))
                /\ UNCHANGED <<phase, result>>
           ELSE /\ stack' = [stack EXCEPT
                                ![Len(stack)].todo = Tail(top.todo),
                                ![Len(stack)].element.children =
                                    @ \o _build_element(graph, child_uri)]
                /\ UNCHANGED <<phase, result>>
    /\ UNCHANGED <<root_uri, nsmap, cycle_vars>>

\* lines 301-304: a call whose children are built returns its element, which
\* the caller appends; convert wraps the element of the first call (line 317)
_build_element_return ==
    /\ phase = "building"
    /\ stack[Len(stack)].todo = <<>>
    /\ LET top == stack[Len(stack)] IN
          IF Len(stack) = 1
          THEN /\ stack' = <<>>
               /\ phase' = "decoded"
               /\ result' = [status |-> "ok", tree |-> <<top.element>>]
          ELSE /\ stack' = [SubSeq(stack, 1, Len(stack) - 1) EXCEPT
                              ![Len(stack) - 1].element.children =
                                  Append(@, top.element)]
               /\ UNCHANGED <<phase, result>>
    /\ UNCHANGED <<root_uri, nsmap, cycle_vars>>

NextCycle ==
    \/ RDFToSCLConverter_convert_call
    \/ _build_element_call
    \/ _build_element_return

\* the interpreter runs the call to its end
SpecCycle == InitCycle /\ [][NextCycle]_vars /\ WF_vars(NextCycle)

\* no entity is being rebuilt within its own rebuild
NoNestedRebuild ==
    \A i \in DOMAIN stack, j \in DOMAIN stack : i # j => stack[i].uri # stack[j].uri

\* C25: decode terminates with a document on every triple set that has a
\* root entity, also when the child relations form a cycle or make an entity
\* its own descendant, and no entity is rebuilt without bound, that is,
\* within its own rebuild.
C25_Terminates ==
    /\ []NoNestedRebuild
    /\ <>(phase = "decoded")

\* the calls, one by one, return what _build_element returns
StepwiseAgrees ==
    (phase = "decoded") => result.tree = _build_element(graph, root_uri)

====
